---------------------------- MODULE Spec2Model ----------------------------
(***************************************************************************)
(* A model of the snapshot-aggregation engine of Dr2ndOp:                  *)
(*   src/cerner_fhir_service.py  (CernerFHIRService, "cerner")             *)
(*   src/epic_fhir_service.py    (EpicFHIRService,   "epic")               *)
(* Strings of the program are sequences of one-character strings, so that  *)
(* strip, replace, prefix tests and formatting are computed, not assumed.  *)
(***************************************************************************)
EXTENDS Integers, Sequences, FiniteSets, TLC

(***************************************************************************)
(* Bounds of the model.                                                    *)
(***************************************************************************)
MaxClock == 25
MaxCalls == 2
MaxScopeParts == 3
MaxFetched == 11
MaxList == 3

(***************************************************************************)
(* Program constants.                                                      *)
(***************************************************************************)
\* cerner_fhir_service.py:133   now < (self._token_exp - 15)
SafetyMargin == 15

\* cerner_fhir_service.py:74-75  the fields start as None.  A token value is
\* the number of the POST that obtained it, together with the time at which
\* the server stops honouring it (which the program never reads); NoToken
\* stands for None / absent, NoExp for None.
Token(k, e) == [id |-> k, until |-> e]
NoToken == Token(0, 0)
NoExp == -1

(***************************************************************************)
(* Strings.                                                                *)
(***************************************************************************)
IsWs(c) == c \in {" ", "\t"}

RECURSIVE LStrip(_)
LStrip(s) == IF s # <<>> /\ IsWs(Head(s)) THEN LStrip(Tail(s)) ELSE s

RECURSIVE RStrip(_)
RStrip(s) ==
  IF s # <<>> /\ IsWs(s[Len(s)]) THEN RStrip(SubSeq(s, 1, Len(s) - 1)) ELSE s

\* str.strip()
Strip(s) == RStrip(LStrip(s))

\* str.startswith(p) / str.endswith(p)
StartsWith(s, p) == Len(s) >= Len(p) /\ SubSeq(s, 1, Len(p)) = p
EndsWith(s, p) == Len(s) >= Len(p) /\ SubSeq(s, Len(s) - Len(p) + 1, Len(s)) = p

\* str.replace(a, b) for a single character a
RECURSIVE ReplaceChar(_, _, _)
ReplaceChar(s, a, b) ==
  IF s = <<>> THEN <<>>
  ELSE (IF Head(s) = a THEN b ELSE <<Head(s)>>) \o ReplaceChar(Tail(s), a, b)

\* re.sub(r"\s+", " ", s)
RECURSIVE CollapseWs(_)
CollapseWs(s) ==
  IF s = <<>> THEN <<>>
  ELSE IF IsWs(Head(s))
       THEN <<" ">> \o CollapseWs(LStrip(s))
       ELSE <<Head(s)>> \o CollapseWs(Tail(s))

\* s.split("=", 1)[1] : what follows the first "="
RECURSIVE AfterFirstEq(_)
AfterFirstEq(s) ==
  IF s = <<>> THEN <<>>
  ELSE IF Head(s) = "=" THEN Tail(s) ELSE AfterFirstEq(Tail(s))

ScopePrefix == <<"C","E","R","N","E","R","_","S","C","O","P","E","=">>

UnquoteScope(s) ==
  IF (StartsWith(s, <<"\"">>) /\ EndsWith(s, <<"\"">>))
     \/ (StartsWith(s, <<"'">>) /\ EndsWith(s, <<"'">>))
  THEN Strip(SubSeq(s, 2, Len(s) - 1))
  ELSE s

\* CernerFHIRService._normalize_scope
NormalizeScope(s) ==
  IF s = <<>> THEN <<>>
  ELSE LET s1 == Strip(s)
           s2 == IF StartsWith(s1, ScopePrefix) THEN Strip(AfterFirstEq(s1)) ELSE s1
           s3 == ReplaceChar(s2, ",", <<" ">>)
           s4 == CollapseWs(s3)
       IN UnquoteScope(s4)


(***************************************************************************)
(* Values of FHIR resources.  NoneStr stands for Python's None (an absent  *)
(* member); it is no string of the program, whose characters are single.   *)
(***************************************************************************)
NoneStr == <<"<None>">>
NoValue == -1

\* Python truthiness of an optional string:  x or ''
Truthy(x) == x # NoneStr /\ x # <<>>
OrEmpty(x) == IF Truthy(x) THEN x ELSE <<>>

DigitChars == <<"0", "1", "2", "3", "4", "5", "6", "7", "8", "9">>
IsDigit(c) == \E i \in 1..10 : DigitChars[i] = c
DigitVal(c) == (CHOOSE i \in 1..10 : DigitChars[i] = c) - 1
AllDigits(s) == \A i \in 1..Len(s) : IsDigit(s[i])

RECURSIVE Num(_)
Num(s) == IF s = <<>> THEN 0 ELSE 10 * Num(SubSeq(s, 1, Len(s) - 1)) + DigitVal(s[Len(s)])

\* str(n) of a natural number
RECURSIVE Digits(_)
Digits(n) == IF n < 10 THEN <<DigitChars[n + 1]>>
             ELSE Digits(n \div 10) \o <<DigitChars[(n % 10) + 1]>>

\* "%02d" / "%04d"
RECURSIVE PadTo(_, _)
PadTo(s, w) == IF Len(s) >= w THEN s ELSE PadTo(<<"0">> \o s, w)

IsLeap(y) == (y % 4 = 0 /\ y % 100 # 0) \/ y % 400 = 0
DaysIn(y, m) ==
  IF m = 2 THEN (IF IsLeap(y) THEN 29 ELSE 28)
  ELSE IF m \in {4, 6, 9, 11} THEN 30 ELSE 31

NoDate == [ok |-> FALSE, y |-> 0, m |-> 0, d |-> 0]
Date(y, m, d) ==
  IF y >= 1 /\ m \in 1..12 /\ d >= 1 /\ d <= DaysIn(y, m)
  THEN [ok |-> TRUE, y |-> y, m |-> m, d |-> d] ELSE NoDate

\* The date part of an ISO-8601 string: YYYY, YYYY-MM, YYYYMMDD, YYYY-MM-DD.
IsoDate(s) ==
  IF Len(s) = 4 /\ AllDigits(s) THEN Date(Num(s), 1, 1)
  ELSE IF Len(s) = 7 /\ AllDigits(SubSeq(s, 1, 4)) /\ s[5] = "-"
          /\ AllDigits(SubSeq(s, 6, 7))
  THEN Date(Num(SubSeq(s, 1, 4)), Num(SubSeq(s, 6, 7)), 1)
  ELSE IF Len(s) = 8 /\ AllDigits(s)
  THEN Date(Num(SubSeq(s, 1, 4)), Num(SubSeq(s, 5, 6)), Num(SubSeq(s, 7, 8)))
  ELSE IF Len(s) = 10 /\ AllDigits(SubSeq(s, 1, 4)) /\ s[5] = "-"
          /\ AllDigits(SubSeq(s, 6, 7)) /\ s[8] = "-" /\ AllDigits(SubSeq(s, 9, 10))
  THEN Date(Num(SubSeq(s, 1, 4)), Num(SubSeq(s, 6, 7)), Num(SubSeq(s, 9, 10)))
  ELSE NoDate

\* The time part: hh:mm:ss, then nothing or Z.
IsoTime(s) ==
  /\ Len(s) \in {8, 9}
  /\ AllDigits(SubSeq(s, 1, 2)) /\ s[3] = ":" /\ AllDigits(SubSeq(s, 4, 5))
  /\ s[6] = ":" /\ AllDigits(SubSeq(s, 7, 8))
  /\ Num(SubSeq(s, 1, 2)) <= 23 /\ Num(SubSeq(s, 4, 5)) <= 59
  /\ Num(SubSeq(s, 7, 8)) <= 59
  /\ Len(s) = 9 => s[9] = "Z"

\* dateutil.parser.isoparse on a string: the date it reads, or ok = FALSE
\* where it raises ValueError.  A date, then nothing or one separator
\* character and a time.
IsoParse(s) ==
  IF Len(s) <= 10 THEN IsoDate(s)
  ELSE IF IsoTime(SubSeq(s, 12, Len(s))) THEN IsoDate(SubSeq(s, 1, 10))
  ELSE NoDate

\* datetime.strftime("%m/%d/%Y")
Strftime(dt) ==
  PadTo(Digits(dt.m), 2) \o <<"/">> \o PadTo(Digits(dt.d), 2) \o <<"/">>
    \o PadTo(Digits(dt.y), 4)

\* Which exceptions of isoparse the summarizer's except clause catches
\* (cerner line 340, epic line 261): ParserError and TypeError.  isoparse
\* raises a plain ValueError on a string it cannot read.
CatchesIsoparseError == FALSE

\* re.sub(r"<[^>]*>", "", s)
RECURSIVE StripTags(_)
HasClose(s) == \E i \in 1..Len(s) : s[i] = ">"
AfterClose(s) == SubSeq(s, (CHOOSE i \in 1..Len(s) :
                              s[i] = ">" /\ \A j \in 1..(i - 1) : s[j] # ">") + 1, Len(s))
StripTags(s) ==
  IF s = <<>> THEN <<>>
  ELSE IF Head(s) = "<" /\ HasClose(Tail(s)) THEN StripTags(AfterClose(Tail(s)))
  ELSE <<Head(s)>> \o StripTags(Tail(s))

\* _strip_html
StripHtml(s) == Strip(StripTags(OrEmpty(s)))

(***************************************************************************)
(* Raw resources and their summaries.                                      *)
(***************************************************************************)
RawObs(basedOn, code_text, value, unit, code, iss) ==
  [basedOn |-> basedOn, code_text |-> code_text, value |-> value, unit |-> unit,
   code |-> code, issued |-> iss]
RawAllergy(code_text, display, div) ==
  [code_text |-> code_text, display |-> display, div |-> div]
RawCondition(code_text, display) == [code_text |-> code_text, display |-> display]
RawMed(name, dosage) == [name |-> name, dosage |-> dosage]
RawPatient(text, given, family, birthDate, gender, gp) ==
  [text |-> text, given |-> given, family |-> family, birthDate |-> birthDate,
   gender |-> gender, gp |-> gp]

\* The issued member after lines 335-341 (cerner) / 256-262 (epic): a
\* truthy value is parsed and reformatted; one isoparse cannot read raises,
\* and stays as it is only if the except clause catches the error.
IssuedRaises(iss) == Truthy(iss) /\ ~IsoParse(iss).ok /\ ~CatchesIsoparseError
IssuedOut(iss) ==
  IF Truthy(iss) /\ IsoParse(iss).ok THEN Strftime(IsoParse(iss)) ELSE iss

\* The label before the value: cerner line 342, epic line 263.
ObsLabel(p, o) ==
  IF p = "cerner" THEN Strip(ReplaceChar(OrEmpty(o.code_text), ":", <<>>))
  ELSE Strip(OrEmpty(o.basedOn) \o <<":", " ">>
             \o ReplaceChar(OrEmpty(o.code_text), ":", <<>>))

\* _summarize_observation.  raises: the call ends in the ValueError of
\* isoparse instead of returning.
SummarizeObservation(p, o) ==
  LET unit == IF Truthy(o.unit) THEN o.unit ELSE o.code
      iss == IssuedOut(o.issued)
      text == IF o.value # NoValue
              THEN Strip(ObsLabel(p, o) \o <<" ">> \o Digits(o.value)
                         \o (IF Truthy(unit) THEN <<" ">> \o unit ELSE <<>>)
                         \o <<" ">> \o OrEmpty(iss))
              ELSE Strip(ObsLabel(p, o) \o <<" ">> \o OrEmpty(iss))
  IN [raises |-> IssuedRaises(o.issued),
      based_on |-> IF p = "epic" THEN o.basedOn ELSE NoneStr,
      code_text |-> o.code_text, value |-> o.value, unit |-> unit,
      issued |-> iss, text |-> text]

\* The placeholder labels (cerner lines 363, 372, 380; epic 284, 292, 300).
AllergyPlaceholder ==
  <<"A", "l", "l", "e", "r", "g", "y", "/", "I", "n", "t", "o">>
     \o <<"l", "e", "r", "a", "n", "c", "e", " ", "(", "u", "n", "s">>
     \o <<"p", "e", "c", "i", "f", "i", "e", "d", ")">>
ConditionPlaceholder ==
  <<"C", "o", "n", "d", "i", "t", "i", "o", "n", " ", "(", "u">>
     \o <<"n", "s", "p", "e", "c", "i", "f", "i", "e", "d", ")">>
MedicationPlaceholder ==
  <<"M", "e", "d", "i", "c", "a", "t", "i", "o", "n", " ", "(">>
     \o <<"u", "n", "s", "p", "e", "c", "i", "f", "i", "e", "d", ")">>

FirstTruthy(a, b) == IF Truthy(a) THEN a ELSE b

\* _summarize_allergy
SummarizeAllergy(a) ==
  [text |-> FirstTruthy(a.code_text,
              FirstTruthy(a.display,
                FirstTruthy(StripHtml(a.div),
                  AllergyPlaceholder)))]

\* _summarize_condition
SummarizeCondition(c) ==
  [text |-> FirstTruthy(c.code_text,
              FirstTruthy(c.display, ConditionPlaceholder))]

\* _summarize_medication
SummarizeMedication(m) ==
  [name |-> FirstTruthy(m.name, MedicationPlaceholder), dosage |-> m.dosage]

\* _patient_summary on the fetched list: None for an empty one.
\* raises: the call ends in an exception instead of returning.
NoPatient == [raises |-> FALSE, found |-> FALSE, name |-> NoneStr, dob |-> NoneStr,
              gender |-> NoneStr, general_practitioner |-> NoneStr]
\* _patient_summary without its test for an empty list: pats[0] raises.
PatientSummaryUnchecked(pats) == [NoPatient EXCEPT !.raises = pats = <<>>]

PatientSummary(pats) ==
  IF pats = <<>> THEN NoPatient
  ELSE LET pat == pats[1]
       IN [raises |-> FALSE, found |-> TRUE,
           name |-> IF Truthy(pat.text) THEN pat.text
                    ELSE Strip(OrEmpty(pat.given)
                               \o (IF Truthy(pat.given) /\ Truthy(pat.family)
                                   THEN <<" ">> ELSE <<>>)
                               \o OrEmpty(pat.family)),
           dob |-> pat.birthDate, gender |-> pat.gender,
           general_practitioner |-> pat.gp]

\* [f(x) for x in xs]
RECURSIVE MapObs(_, _)
MapObs(p, xs) ==
  IF xs = <<>> THEN <<>> ELSE <<SummarizeObservation(p, Head(xs))>> \o MapObs(p, Tail(xs))
RECURSIVE MapAllergy(_)
MapAllergy(xs) ==
  IF xs = <<>> THEN <<>> ELSE <<SummarizeAllergy(Head(xs))>> \o MapAllergy(Tail(xs))
RECURSIVE MapCondition(_)
MapCondition(xs) ==
  IF xs = <<>> THEN <<>> ELSE <<SummarizeCondition(Head(xs))>> \o MapCondition(Tail(xs))
RECURSIVE MapMed(_)
MapMed(xs) ==
  IF xs = <<>> THEN <<>> ELSE <<SummarizeMedication(Head(xs))>> \o MapMed(Tail(xs))

\* xs[:n]
Take(xs, n) == SubSeq(xs, 1, IF Len(xs) < n THEN Len(xs) ELSE n)

\* The de-duplication loop of observations (cerner 220-227, epic 115-122):
\* an entry is kept, and its text remembered, when the text is new and
\* issued is not None.
\* The loop forgetting a text when it meets it again.
RECURSIVE DedupObsFromForgetful(_, _)
DedupObsFromForgetful(xs, seen) ==
  IF xs = <<>> THEN <<>>
  ELSE IF Head(xs).text \notin seen /\ Head(xs).issued # NoneStr
       THEN <<Head(xs)>> \o DedupObsFromForgetful(Tail(xs), seen \cup {Head(xs).text})
       ELSE DedupObsFromForgetful(Tail(xs), seen \ {Head(xs).text})

\* The loop remembering the text of every entry it meets, kept or not.
RECURSIVE DedupObsFromEager(_, _)
DedupObsFromEager(xs, seen) ==
  IF xs = <<>> THEN <<>>
  ELSE IF Head(xs).text \notin seen /\ Head(xs).issued # NoneStr
       THEN <<Head(xs)>> \o DedupObsFromEager(Tail(xs), seen \cup {Head(xs).text})
       ELSE DedupObsFromEager(Tail(xs), seen \cup {Head(xs).text})

\* The loop without its test of issued.
RECURSIVE DedupObsFromAnyDate(_, _)
DedupObsFromAnyDate(xs, seen) ==
  IF xs = <<>> THEN <<>>
  ELSE IF Head(xs).text \notin seen
       THEN <<Head(xs)>> \o DedupObsFromAnyDate(Tail(xs), seen \cup {Head(xs).text})
       ELSE DedupObsFromAnyDate(Tail(xs), seen)

RECURSIVE DedupObsFrom(_, _)
DedupObsFrom(xs, seen) ==
  IF xs = <<>> THEN <<>>
  ELSE IF Head(xs).text \notin seen /\ Head(xs).issued # NoneStr
       THEN <<Head(xs)>> \o DedupObsFrom(Tail(xs), seen \cup {Head(xs).text})
       ELSE DedupObsFrom(Tail(xs), seen)
DedupObs(xs) == DedupObsFrom(xs, {})

\* The de-duplication loop of allergies and of conditions, by text.
RECURSIVE DedupTextFrom(_, _)
DedupTextFrom(xs, seen) ==
  IF xs = <<>> THEN <<>>
  ELSE IF Head(xs).text \notin seen
       THEN <<Head(xs)>> \o DedupTextFrom(Tail(xs), seen \cup {Head(xs).text})
       ELSE DedupTextFrom(Tail(xs), seen)
DedupText(xs) == DedupTextFrom(xs, {})

\* The loop of medications with the name alone as key.
RECURSIVE DedupMedFromByName(_, _)
DedupMedFromByName(xs, seen) ==
  IF xs = <<>> THEN <<>>
  ELSE IF Head(xs).name \notin seen
       THEN <<Head(xs)>> \o DedupMedFromByName(Tail(xs), seen \cup {Head(xs).name})
       ELSE DedupMedFromByName(Tail(xs), seen)

\* The de-duplication loop of medications, by (name, dosage).
RECURSIVE DedupMedFrom(_, _)
DedupMedFrom(xs, seen) ==
  IF xs = <<>> THEN <<>>
  ELSE IF <<Head(xs).name, Head(xs).dosage>> \notin seen
       THEN <<Head(xs)>>
            \o DedupMedFrom(Tail(xs), seen \cup {<<Head(xs).name, Head(xs).dosage>>})
       ELSE DedupMedFrom(Tail(xs), seen)
DedupMeds(xs) == DedupMedFrom(xs, {})

\* cerner lines 240 and 260: allergies_list[:10], conditions_list[:10]
ListCap == 10

\* The allergies / conditions of the snapshot from the summaries: cerner
\* cuts the list to its first ListCap entries and then de-duplicates
\* (lines 239-248, 259-268); epic de-duplicates the whole list (134-159).
CappedDedup(p, xs) ==
  IF p = "cerner" THEN DedupText(Take(xs, ListCap)) ELSE DedupText(xs)

(***************************************************************************)
(* State.                                                                  *)
(***************************************************************************)
VARIABLES
  provider,   \* "cerner" | "epic": which service class the instance is
  rawScope,   \* the scope string handed to the constructor (cerner)
  svc,        \* the service instance: ok, scope, access_token, token_exp
  now,        \* int(time.time())
  posts,      \* token-endpoint POSTs issued so far
  inflight,   \* callers whose token POST is out and not yet answered
  calls,      \* calls started so far
  last,       \* what the most recently completed get-token call returned
  th,         \* the callers (threads) of the instance
  limit,      \* the CERNER_SET_LIMIT / EPIC_SET_LIMIT toggle: "1" is bounded
  ehr         \* what the FHIR server holds for the patient, per resource

vars == <<provider, rawScope, svc, now, posts, inflight, calls, last, th,
          limit, ehr>>

Threads == {1, 2}

\* Lifetimes the token server grants (seconds).
Lifetimes == {20, 23}

\* How far one clock step moves time.time() (seconds).
TickSteps == {5}

(***************************************************************************)
(* Construction.                                                           *)
(***************************************************************************)
\* CernerFHIRService._check_min_config: the scope test.  client_id, token_url,
\* fhir_base and the key path are taken as configured.
CheckMinConfig(scope) == scope # <<>>

\* CernerFHIRService.__init__ / EpicFHIRService.__init__
NewService(p, raw) ==
  IF p = "cerner"
  THEN LET sc == NormalizeScope(raw)
       IN [ok |-> CheckMinConfig(sc), scope |-> sc,
           access_token |-> NoToken, token_exp |-> NoExp]
  ELSE [ok |-> TRUE, scope |-> <<>>, access_token |-> NoToken, token_exp |-> NoExp]

(***************************************************************************)
(* Token endpoint responses.                                               *)
(***************************************************************************)
\* A response: status, whether the body is JSON, the access_token and
\* expires_in members of it (NoToken / NoExp when absent), and the body text.
Resp(status, json, tok, exp, text) ==
  [status |-> status, json |-> json, access_token |-> tok, expires_in |-> exp,
   text |-> text]

NoResp == Resp(0, FALSE, NoToken, NoExp, "")

\* What the server may answer to a POST when the token it would grant is k,
\* of lifetime l.
Responses(k, l) ==
  { Resp(200, TRUE, k, l, "token"),
    Resp(200, TRUE, k, NoExp, "token-no-expires_in"),
    Resp(200, TRUE, NoToken, NoExp, "{}"),
    Resp(200, FALSE, NoToken, NoExp, "<html>"),
    Resp(304, FALSE, NoToken, NoExp, ""),
    Resp(401, TRUE, NoToken, NoExp, "{\"error\":\"invalid_client\"}"),
    Resp(500, FALSE, NoToken, NoExp, "<html>") }

\* requests.Response.raise_for_status: HTTPError for 4xx and 5xx.
RaisesForStatus(r) == 400 <= r.status /\ r.status < 600

\* int(tok.get("expires_in", 0))
ExpiresIn(r) == IF r.expires_in = NoExp THEN 0 ELSE r.expires_in

(***************************************************************************)
(* Outcomes of a call.                                                     *)
(***************************************************************************)
Outcome(kind, exc, msg, status, text, tok) ==
  [kind |-> kind, exc |-> exc, msg |-> msg, status |-> status, text |-> text,
   token |-> tok]

NoOutcome == Outcome("none", "", "", 0, "", NoToken)
Returned(tok) == Outcome("ok", "", "", 0, "", tok)
Raised(exc, msg, status, text) == Outcome("error", exc, msg, status, text, NoToken)


(***************************************************************************)
(* Callers.                                                                *)
(***************************************************************************)
\* A caller at rest.  op: "token" | "snapshot".  posts: POSTs of this call.
\* held: the cache held a token when the call began; left: the seconds that
\* token had left then; hit: the call returned it.  gotStatus / gotText: the
\* status and body of the answer to the call's POST.  prior: the token the
\* previous call on the instance obtained, if still valid under the margin
\* when this call began.  sent: the scope of the POST.  tok: the
\* access_token local of snapshot.  acc: the entries fetch_all has gathered
\* so far.  fetched: the resources requested.  stale: a request went out with
\* a token the server had already expired.  failed: the resource whose
\* request failed, if one did.  before: the cached token and expiry when
\* the call began.  gets: the get-token calls the call has made.
\* fhir, fhir_med: the bearer token each FHIR client was built with.  used:
\* the bearer tokens that went out on the requests.  patient .. medications:
\* the members of the snapshot as they are computed.
IdleThread ==
  [pc |-> "idle", op |-> "token", force |-> FALSE, posts |-> 0, hit |-> FALSE,
   held |-> FALSE, left |-> 0, gotStatus |-> 0, gotText |-> "", prior |-> NoToken, sent |-> <<>>,
   resp |-> NoResp, outcome |-> NoOutcome, tok |-> NoToken,
   acc |-> <<>>, fetched |-> {}, stale |-> FALSE, failed |-> "",
   before |-> [access_token |-> NoToken, token_exp |-> NoExp],
   gets |-> 0, fhir |-> NoToken, fhir_med |-> NoToken, used |-> {},
   patient |-> NoPatient, observations |-> <<>>, allergies |-> <<>>,
   conditions |-> <<>>, medications |-> <<>>]

\* The reuse test with a margin of 5 seconds.
CacheUsableThinMargin(s, force, t) ==
  /\ s.access_token # NoToken
  /\ s.token_exp # NoExp /\ s.token_exp # 0
  /\ ~force
  /\ t < s.token_exp - 5

\* The reuse test without its look at force.
CacheUsableIgnoringForce(s, force, t) ==
  /\ s.access_token # NoToken
  /\ s.token_exp # NoExp /\ s.token_exp # 0
  /\ t < s.token_exp - SafetyMargin

\* cerner_fhir_service.py:133  the reuse test of _get_access_token
CacheUsable(s, force, t) ==
  /\ s.access_token # NoToken
  /\ s.token_exp # NoExp /\ s.token_exp # 0
  /\ ~force
  /\ t < s.token_exp - SafetyMargin

\* The POST goes out whatever the scope.
ScopeNeverRefused(scope_str) == FALSE

\* cerner_fhir_service.py:143  if not scope_str
ScopeRefused(scope_str) == scope_str = <<>>

\* The token a previous call left behind, if a caller starting at time t
\* finds it inside its safety margin.
PriorValid(t) ==
  IF last.token # NoToken /\ t < last.exp - SafetyMargin THEN last.token ELSE NoToken

\* snapshot builds its FHIR clients from the access_token local: cerner
\* line 202 (one client), epic lines 96-97 (fhir and fhir_med).
BuildClients(r) ==
  [r EXCEPT !.fhir = r.tok,
            !.fhir_med = IF provider = "epic" THEN r.tok ELSE NoToken]

\* The client the search of stage c goes through: epic sends the
\* medication search through fhir_med (lines 163-169), all else is on fhir.
BearerOf(p, r, c) == IF p = "epic" /\ c = "med" THEN r.fhir_med ELSE r.fhir

\* snapshot going on to its searches whatever get-token gave.
EndTokenStageUnchecked(r, o) ==
  IF r.op = "token" THEN [r EXCEPT !.pc = "done", !.outcome = o]
  ELSE BuildClients([r EXCEPT !.pc = "patient", !.tok = o.token])

\* The caller record r as the token stage ends with outcome o.  A get-token
\* call is over; snapshot goes on to its fetches
\* (snapshot: token_resp["access_token"], a KeyError when absent).
EndTokenStage(r, o) ==
  IF r.op = "token" \/ o.kind # "ok" THEN [r EXCEPT !.pc = "done", !.outcome = o]
  ELSE IF o.token = NoToken
       THEN [r EXCEPT !.pc = "done",
                      !.outcome = Raised("KeyError", "access_token", 0, "")]
       ELSE BuildClients([r EXCEPT !.pc = "patient", !.tok = o.token])

\* What a finished get-token call leaves for the next one: its token and the
\* expiry computed for it, or nothing.
LastAfter(o, e) ==
  IF o.kind = "ok" /\ o.token # NoToken
  THEN [token |-> o.token, exp |-> e]
  ELSE [token |-> NoToken, exp |-> NoExp]

(***************************************************************************)
(* _get_access_token / get_access_token, in three steps: the cache test,   *)
(* the POST, and the handling of the answer.                               *)
(***************************************************************************)
\* A caller enters snapshot or get-token.  cerner lines 132-139: the clock is
\* read and a usable cached token is returned at once.  epic has no cache.
Call(t, op, force) ==
  /\ svc.ok
  /\ th[t].pc \in {"idle", "done"}
  /\ calls < MaxCalls
  /\ provider = "epic" => ~force
  /\ calls' = calls + 1
  /\ LET r == [IdleThread EXCEPT !.op = op, !.force = force, !.gets = 1,
                                 !.prior = PriorValid(now),
                                 !.before = [access_token |-> svc.access_token,
                                             token_exp |-> svc.token_exp],
                                 !.held = svc.access_token # NoToken,
                                 !.left = IF svc.access_token # NoToken
                                          THEN svc.token_exp - now ELSE 0]
     IN IF provider = "cerner" /\ CacheUsable(svc, force, now)
        THEN /\ th' = [th EXCEPT ![t] =
                        EndTokenStage([r EXCEPT !.hit = TRUE],
                                      Returned(svc.access_token))]
             /\ last' = [token |-> svc.access_token, exp |-> svc.token_exp]
        ELSE /\ th' = [th EXCEPT ![t] = [r EXCEPT !.pc = "post"]]
             /\ last' = last
  /\ UNCHANGED <<provider, rawScope, svc, now, posts, inflight, limit, ehr>>

\* cerner lines 141-157, epic lines 57-63: the scope is normalized again and
\* refused when empty; else the assertion is built and the POST goes out.
SendPost(t) ==
  /\ th[t].pc = "post"
  /\ LET scope_str == NormalizeScope(svc.scope)
     IN IF provider = "cerner" /\ ScopeRefused(scope_str)
        THEN LET o == Raised("RuntimeError",
                             "Refusing to request token with empty scope", 0, "")
             IN /\ th' = [th EXCEPT ![t] = EndTokenStage(th[t], o)]
                /\ last' = LastAfter(o, NoExp)
                /\ UNCHANGED <<posts, inflight>>
        ELSE /\ th' = [th EXCEPT ![t].pc = "wait", ![t].posts = @ + 1,
                                 ![t].sent = scope_str]
             /\ posts' = posts + 1
             /\ inflight' = inflight \cup {t}
             /\ last' = last
  /\ UNCHANGED <<provider, rawScope, svc, now, calls, limit, ehr>>

\* The token endpoint answers the POST of caller t.
Respond(t) ==
  /\ th[t].pc = "wait"
  /\ \E l \in Lifetimes : \E r \in Responses(Token(posts, now + l), l) :
       th' = [th EXCEPT ![t].pc = "store", ![t].resp = r,
                        ![t].gotStatus = r.status, ![t].gotText = r.text]
  /\ inflight' = inflight \ {t}
  /\ UNCHANGED <<provider, rawScope, svc, now, posts, calls, last, limit, ehr>>

\* cerner lines 159-173: raise_for_status, resp.json(), the two cache writes.
CernerStore(s, r, t) ==
  IF RaisesForStatus(r) \/ ~r.json THEN s
  ELSE IF r.access_token = NoToken THEN [s EXCEPT !.access_token = NoToken]
  ELSE [s EXCEPT !.access_token = r.access_token, !.token_exp = t + ExpiresIn(r)]

\* The outcome of the POST's answer r: cerner lines 159-173, epic lines 64-71.
AnswerOutcome(p, r) ==
  IF RaisesForStatus(r)
  THEN Raised("RuntimeError", "Token request failed", r.status, r.text)
  ELSE IF ~r.json
  THEN IF p = "cerner" THEN Raised("JSONDecodeError", "", 0, "")
       ELSE Raised("RuntimeError", "Token response was not valid JSON", 0, "")
  ELSE IF p = "cerner" /\ r.access_token = NoToken
  THEN Raised("RuntimeError", "Token response missing access_token", 0, r.text)
  ELSE Returned(r.access_token)

\* The caller handles the answer.
Finish(t) ==
  /\ th[t].pc = "store"
  /\ LET r == th[t].resp
         o == AnswerOutcome(provider, r)
     IN /\ svc' = IF provider = "cerner" THEN CernerStore(svc, r, now) ELSE svc
        /\ th' = [th EXCEPT ![t] = EndTokenStage([th[t] EXCEPT !.resp = NoResp], o)]
        /\ last' = LastAfter(o, now + ExpiresIn(r))
  /\ UNCHANGED <<provider, rawScope, now, posts, inflight, calls, limit, ehr>>

\* time.time() moves on.
Tick ==
  /\ \E d \in TickSteps : now + d <= MaxClock /\ now' = now + d
  /\ UNCHANGED <<provider, rawScope, svc, posts, inflight, calls, last, th,
               limit, ehr>>


(***************************************************************************)
(* snapshot after the token: one FHIR search per resource, in order.       *)
(***************************************************************************)
Stages == <<"patient", "obs", "allergy", "cond", "med">>
IsStage(c) == \E i \in 1..Len(Stages) : Stages[i] = c
StageAfter(c) ==
  LET i == CHOOSE k \in 1..Len(Stages) : Stages[k] = c
  IN IF i = Len(Stages) THEN "done" ELSE Stages[i + 1]

\* What the server returns in one page of an unbounded search.
PageSize == 2

\* .limit(n): 10 everywhere, 20 for epic's MedicationStatement (line 165).
FetchLimit(p, c) == IF p = "epic" /\ c = "med" THEN 20 ELSE 10

\* The entries one request adds to those gathered so far: the first page of
\* the Patient search; the first n of a bounded search (.limit(n).fetch());
\* the next page of fetch_all.
PageOf(p, lim, c, all, acc) ==
  IF c = "patient" THEN Take(all, PageSize)
  ELSE IF lim = "1" THEN Take(all, FetchLimit(p, c))
  ELSE acc \o SubSeq(all, Len(acc) + 1,
                     IF Len(acc) + PageSize < Len(all) THEN Len(acc) + PageSize
                     ELSE Len(all))

\* Whether the search is over after that request.
FetchOver(lim, c, all, got) == c = "patient" \/ lim = "1" \/ Len(got) >= Len(all)

\* A summarizer raised while the list was built (the list comprehension of
\* snapshot line 218 / 113 ends with the exception).
ObsRaise(p, raw) == \E i \in 1..Len(raw) : SummarizeObservation(p, raw[i]).raises

ObservationsOf(p, raw) == DedupObs(MapObs(p, raw))
AllergiesOf(p, raw) == CappedDedup(p, MapAllergy(raw))
ConditionsOf(p, raw) == CappedDedup(p, MapCondition(raw))
MedicationsOf(raw) == DedupMeds(MapMed(raw))

\* The caller record r once the search of stage c has returned got.
StageDone(p, r, c, got) ==
  IF c = "obs" /\ ObsRaise(p, got)
  THEN [r EXCEPT !.pc = "done", !.acc = <<>>,
                 !.outcome = Raised("ValueError", "isoparse", 0, "")]
  ELSE IF c = "patient" /\ PatientSummary(got).raises
  THEN [r EXCEPT !.pc = "done", !.acc = <<>>,
                 !.outcome = Raised("IndexError", "pats[0]", 0, "")]
  ELSE LET q == [r EXCEPT !.pc = StageAfter(c), !.acc = <<>>,
                          !.outcome = IF StageAfter(c) = "done"
                                      THEN Outcome("snapshot", "", "", 0, "", r.tok)
                                      ELSE r.outcome]
       IN IF c = "patient" THEN [q EXCEPT !.patient = PatientSummary(got)]
          ELSE IF c = "obs" THEN [q EXCEPT !.observations = ObservationsOf(p, got)]
          ELSE IF c = "allergy" THEN [q EXCEPT !.allergies = AllergiesOf(p, got)]
          ELSE IF c = "cond" THEN [q EXCEPT !.conditions = ConditionsOf(p, got)]
          ELSE [q EXCEPT !.medications = MedicationsOf(got)]

\* One GET of the search of the current stage is answered; the bearer token
\* of the request is the one snapshot obtained at its start.
FetchPage(t) ==
  /\ IsStage(th[t].pc)
  /\ LET c == th[t].pc
         got == PageOf(provider, limit, c, ehr[c], th[t].acc)
         r == [th[t] EXCEPT !.fetched = @ \cup {c},
                            !.used = @ \cup {BearerOf(provider, th[t], c)},
                            !.stale = @ \/ now >= th[t].tok.until]
     IN th' = [th EXCEPT ![t] =
                 IF FetchOver(limit, c, ehr[c], got)
                 THEN StageDone(provider, r, c, got)
                 ELSE [r EXCEPT !.acc = got]]
  /\ UNCHANGED <<provider, rawScope, svc, now, posts, inflight, calls, last,
                 limit, ehr>>

\* A failed search taken as one that found nothing.
FetchFailureSwallowed(p, r, c) == StageDone(p, r, c, <<>>)

\* The caller record r once the search of stage c has raised: snapshot has
\* no try around its searches, so the exception leaves it.
FetchFailure(p, r, c) ==
  [r EXCEPT !.pc = "done", !.acc = <<>>,
            !.outcome = Raised("FetchError", c, 0, "")]

\* One GET fails (connection, timeout, HTTP error).
FetchFails(t) ==
  /\ IsStage(th[t].pc)
  /\ LET c == th[t].pc
         r == [th[t] EXCEPT !.fetched = @ \cup {c}, !.failed = c,
                            !.used = @ \cup {BearerOf(provider, th[t], c)},
                            !.stale = @ \/ now >= th[t].tok.until]
     IN th' = [th EXCEPT ![t] = FetchFailure(provider, r, c)]
  /\ UNCHANGED <<provider, rawScope, svc, now, posts, inflight, calls, last,
                 limit, ehr>>


(***************************************************************************)
(* Inputs.                                                                 *)
(***************************************************************************)
sGlucose == <<"G", "l", "u", "c", "o", "s", "e">>
sMgDl == <<"m", "g", "/", "d", "L">>
sIsoZ == <<"2", "0", "2", "4", "-", "0", "3", "-", "0", "1", "T", "0", "0", ":", "0", "0", ":", "0", "0", "Z">>
sIsoDay == <<"2", "0", "2", "4", "-", "0", "3", "-", "0", "1">>
sUsDate == <<"0", "3", "/", "0", "1", "/", "2", "0", "2", "4">>
sCBC == <<"C", "B", "C">>
sPeanut == <<"P", "e", "a", "n", "u", "t">>
sIbuprofen == <<"I", "b", "u", "p", "r", "o", "f", "e", "n">>
s200mg == <<"2", "0", "0", "m", "g">>
s400mg == <<"4", "0", "0", "m", "g">>

oDated == RawObs(NoneStr, sGlucose, 95, sMgDl, NoneStr, sIsoZ)
oSameDay == RawObs(NoneStr, sGlucose, 95, sMgDl, NoneStr, sIsoDay)
oDateless == RawObs(NoneStr, sGlucose, 95, sMgDl, NoneStr, NoneStr)
oBlankDate == RawObs(NoneStr, sGlucose, 95, sMgDl, NoneStr, <<>>)
oBadDate == RawObs(NoneStr, sGlucose, 95, sMgDl, NoneStr, sUsDate)
oOrdered == RawObs(sCBC, sGlucose, 7, NoneStr, sMgDl, sIsoDay)

pJane == RawPatient(NoneStr, <<"J">>, <<"D">>, sIsoDay, <<"f">>, NoneStr)

\* The record of the timing model: three observations (two pages), one
\* allergy, no condition, one medication.
BaseEhr ==
  [patient |-> <<pJane>>, obs |-> <<oDated, oSameDay, oDateless>>,
   allergy |-> <<RawAllergy(sPeanut, NoneStr, NoneStr)>>, cond |-> <<>>,
   med |-> <<RawMed(sIbuprofen, s200mg)>>]

SpecEhrs == {BaseEhr, [BaseEhr EXCEPT !.patient = <<>>]}

\* Scopes of the timing model: a usual one, and a lone comma, which the
\* constructor stores as one blank.
SpecScopes == {<<"a", ",", "b">>, <<",">>}

IdleState ==
  /\ now = 0 /\ posts = 0 /\ inflight = {} /\ calls = 0
  /\ last = [token |-> NoToken, exp |-> NoExp]
  /\ th = [t \in Threads |-> IdleThread]

Init ==
  /\ provider \in {"cerner", "epic"}
  /\ rawScope \in (IF provider = "cerner" THEN SpecScopes ELSE {<<>>})
  /\ svc = NewService(provider, rawScope)
  /\ limit = "0"
  /\ ehr = BaseEhr
  /\ IdleState

\* One caller at a time: get-token calls in sequence while the clock runs.
Next ==
  \/ \E force \in BOOLEAN : Call(1, "token", force)
  \/ SendPost(1)
  \/ Respond(1)
  \/ Finish(1)
  \/ Tick

Spec == Init /\ [][Next]_vars

\* Two callers of get-token on one instance, interleaved step by step.
NextConc ==
  \/ \E t \in Threads : \E force \in BOOLEAN : Call(t, "token", force)
  \/ \E t \in Threads : SendPost(t)
  \/ \E t \in Threads : Respond(t)
  \/ \E t \in Threads : Finish(t)
  \/ Tick

SpecConc == Init /\ [][NextConc]_vars

\* snapshot calls in sequence while the clock runs.
NextSnap ==
  \/ Call(1, "snapshot", FALSE)
  \/ SendPost(1)
  \/ Respond(1)
  \/ Finish(1)
  \/ FetchPage(1)
  \/ FetchFails(1)
  \/ Tick


\* The scope handed to the constructor: up to MaxScopeParts pieces, each a
\* blank, a tab, a comma, a quote, a letter or the CERNER_SCOPE= prefix.
ScopePieces == {<<" ">>, <<"\t">>, <<",">>, <<"\"">>, <<"'">>, <<"a">>, ScopePrefix}

RECURSIVE ScopesOf(_)
ScopesOf(n) ==
  IF n = 0 THEN {<<>>}
  ELSE ScopesOf(n - 1) \cup {s \o q : s \in ScopesOf(n - 1), q \in ScopePieces}

InitScope ==
  /\ provider = "cerner"
  /\ rawScope \in ScopesOf(MaxScopeParts)
  /\ svc = NewService(provider, rawScope)
  /\ limit = "0"
  /\ ehr = BaseEhr
  /\ IdleState

\* get-token calls on an instance built from any scope string.
NextScope ==
  \/ \E force \in BOOLEAN : Call(1, "token", force)
  \/ SendPost(1)
  \/ Respond(1)
  \/ Finish(1)

SpecScope == InitScope /\ [][NextScope]_vars

InitSnap ==
  /\ provider \in {"cerner", "epic"}
  /\ rawScope = (IF provider = "cerner" THEN <<"a", ",", "b">> ELSE <<>>)
  /\ svc = NewService(provider, rawScope)
  /\ limit \in {"0", "1"}
  /\ ehr \in SpecEhrs
  /\ IdleState

SpecSnap == InitSnap /\ [][NextSnap]_vars

\* Records for the data path.  Allergies and conditions: n entries with
\* distinct labels, except that entry d (if any) repeats the label of the
\* first; the label sits in code.text, in the first coding's display or in
\* the narrative, by turns.
Letters == <<"A", "B", "C", "D", "E", "F", "G", "H", "I", "J", "K", "L", "M", "N">>
Label(i) == <<"x", Letters[i]>>

AllergyAt(i, lab) ==
  IF i % 3 = 1 THEN RawAllergy(lab, NoneStr, NoneStr)
  ELSE IF i % 3 = 2 THEN RawAllergy(NoneStr, lab, NoneStr)
  ELSE RawAllergy(NoneStr, NoneStr, <<"<", "b", ">">> \o lab \o <<"<", "/", "b", ">">>)

ConditionAt(i, lab) ==
  IF i % 2 = 1 THEN RawCondition(lab, NoneStr) ELSE RawCondition(<<>>, lab)

AllergyList(n, d) == [i \in 1..n |-> AllergyAt(i, Label(IF i = d THEN 1 ELSE i))]
ConditionList(n, d) == [i \in 1..n |-> ConditionAt(i, Label(IF i = d THEN 1 ELSE i))]

ObsPool == {oDated, oSameDay, oDateless, oBlankDate, oBadDate, oOrdered}
MedPool == {RawMed(sIbuprofen, s200mg), RawMed(sIbuprofen, s400mg),
            RawMed(sIbuprofen, NoneStr), RawMed(NoneStr, NoneStr)}

RECURSIVE ListsOf(_, _)
ListsOf(pool, n) ==
  IF n = 0 THEN {<<>>}
  ELSE ListsOf(pool, n - 1)
       \cup {<<x>> \o xs : x \in pool, xs \in {ys \in ListsOf(pool, n - 1) : Len(ys) = n - 1}}

DataEhrs ==
  {[BaseEhr EXCEPT !.allergy = AllergyList(n, d), !.cond = ConditionList(n, d)] :
     n \in 0..MaxFetched, d \in {0} \cup 2..MaxFetched}
  \cup {[BaseEhr EXCEPT !.obs = o] : o \in ListsOf(ObsPool, MaxList)}
  \cup {[BaseEhr EXCEPT !.med = m] : m \in ListsOf(MedPool, MaxList)}

InitData ==
  /\ provider \in {"cerner", "epic"}
  /\ rawScope = (IF provider = "cerner" THEN <<"a", ",", "b">> ELSE <<>>)
  /\ svc = NewService(provider, rawScope)
  /\ limit \in {"0", "1"}
  /\ ehr \in DataEhrs
  /\ IdleState

\* One snapshot call on any of those records, the clock standing still.
NextData ==
  \/ calls = 0 /\ Call(1, "snapshot", FALSE)
  \/ SendPost(1)
  \/ Respond(1)
  \/ Finish(1)
  \/ FetchPage(1)
  \/ FetchFails(1)

SpecData == InitData /\ [][NextData]_vars

(***************************************************************************)
(* Properties.                                                             *)
(***************************************************************************)
Done(t) == th[t].pc = "done"

\* C1 (as claimed, both providers): a non-forced get-token call that begins
\* while the token of the previous call is inside its safety margin makes
\* no POST and returns that same token.
C1_IdempotentReuse ==
  \A t \in Threads :
    (Done(t) /\ th[t].op = "token" /\ ~th[t].force /\ th[t].prior # NoToken)
      => /\ th[t].posts = 0
         /\ th[t].outcome.kind = "ok"
         /\ th[t].outcome.token = th[t].prior

\* The same for the provider that has a cache.
C1_CernerReuse == provider = "cerner" => C1_IdempotentReuse

\* C2 (as claimed): never two token POSTs in flight at once on one instance.
C2_RefreshExclusive == Cardinality(inflight) <= 1

\* C3: a call returns the cached token only while more than 10 seconds of
\* it are left; a call that finds a cached token with 10 seconds or less
\* left does not return it from the cache and makes a token request.
C3_MarginRespected ==
  \A t \in Threads :
    /\ th[t].hit => th[t].held /\ th[t].left > 10
    /\ (Done(t) /\ th[t].held /\ th[t].left <= 10)
         => ~th[t].hit /\ th[t].posts = 1

C3_Witness ==
  \E t \in Threads : Done(t) /\ th[t].hit /\ th[t].left < 20 /\ th[t].posts = 0

C3_WitnessRefresh ==
  \E t \in Threads : Done(t) /\ th[t].held /\ th[t].left \in 1..10 /\ th[t].posts = 1

C5_FetchTokenValid == \A t \in Threads : ~th[t].stale

\* C6 (as claimed): a call whose POST was answered with a status outside
\* 200..299 ends in an error that carries the status and the body, after
\* exactly one POST.
C6_NonSuccessIsError ==
  \A t \in Threads :
    (Done(t) /\ th[t].gotStatus # 0 /\ th[t].gotStatus \notin 200..299) =>
      /\ th[t].outcome.kind = "error"
      /\ th[t].outcome.status = th[t].gotStatus
      /\ th[t].outcome.text = th[t].gotText
      /\ th[t].posts = 1

\* The same for the statuses raise_for_status rejects, 400..599.
C6_ErrorStatusIsError ==
  \A t \in Threads :
    (Done(t) /\ th[t].gotStatus \in 400..599) =>
      /\ th[t].outcome.kind = "error"
      /\ th[t].outcome.status = th[t].gotStatus
      /\ th[t].outcome.text = th[t].gotText
      /\ th[t].posts = 1

\* C7: with a scope that is empty after normalization no POST is ever made:
\* the constructor fails when the scope it is given normalizes to nothing,
\* and get-token raises before its POST when the stored scope does.
C7_NoPostWithEmptyScope ==
  /\ NormalizeScope(rawScope) = <<>> => ~svc.ok /\ posts = 0
  /\ NormalizeScope(svc.scope) = <<>> =>
       /\ posts = 0
       /\ \A t \in Threads : Done(t) =>
            th[t].outcome.kind = "error" /\ th[t].outcome.exc = "RuntimeError"
  /\ \A t \in Threads : th[t].posts > 0 => th[t].sent # <<>>

C7_Witness ==
  /\ svc.ok /\ rawScope # <<>> /\ NormalizeScope(svc.scope) = <<>>
  /\ \E t \in Threads : Done(t) /\ th[t].outcome.kind = "error" /\ th[t].posts = 0


AllStages == {Stages[i] : i \in 1..Len(Stages)}

\* The Patient search of caller t's snapshot has returned.
PatientReturned(t) ==
  /\ th[t].op = "snapshot" /\ "patient" \in th[t].fetched
  /\ ~(th[t].outcome.exc = "FetchError" /\ th[t].outcome.msg = "patient")

Fetched(c) == IF limit = "1" THEN Take(ehr[c], FetchLimit(provider, c)) ELSE ehr[c]

\* C9 (as claimed): allergies and conditions are the first 10 entries of
\* the de-duplicated list of all fetched resources.
C9_CapAfterDedup ==
  \A t \in Threads :
    (Done(t) /\ th[t].outcome.kind = "snapshot") =>
      /\ th[t].allergies = Take(DedupText(MapAllergy(Fetched("allergy"))), 10)
      /\ th[t].conditions = Take(DedupText(MapCondition(Fetched("cond"))), 10)

\* The Observation search of caller t's snapshot has returned.
ObsReturned(t) ==
  /\ th[t].op = "snapshot" /\ "obs" \in th[t].fetched /\ th[t].pc # "obs"
  /\ ~(th[t].outcome.exc = "FetchError" /\ th[t].outcome.msg = "obs")

UnreadableDate(o) == Truthy(o.issued) /\ ~IsoParse(o.issued).ok

\* C10 (as claimed): an observation whose issued string cannot be parsed
\* does not end snapshot; it is summarized with issued as it came.
C10_BadDateKept ==
  \A t \in Threads :
    ObsReturned(t) =>
      /\ th[t].outcome.exc # "ValueError"
      /\ \A i \in 1..Len(Fetched("obs")) :
           UnreadableDate(Fetched("obs")[i]) =>
             \E j \in 1..Len(th[t].observations) :
               th[t].observations[j].issued = Fetched("obs")[i].issued

Categories == {"obs", "allergy", "cond", "med"}

\* C11: when the search of one category fails, snapshot ends there in an
\* error: no snapshot is returned, with the failed category empty or
\* otherwise, and every returned snapshot had all its five searches answered.
C11_FetchFailureSurfaces ==
  \A t \in Threads :
    /\ th[t].failed \in Categories =>
         /\ Done(t)
         /\ th[t].outcome.kind = "error"
         /\ th[t].outcome.exc = "FetchError" /\ th[t].outcome.msg = th[t].failed
    /\ th[t].outcome.kind = "snapshot" =>
         th[t].failed = "" /\ th[t].fetched = AllStages

C11_Witness ==
  \E t \in Threads :
    /\ Done(t) /\ th[t].failed = "allergy" /\ th[t].outcome.kind = "error"
    /\ th[t].observations # <<>>

\* The positions of keys that hold the first occurrence of their key among
\* the positions ok admits.
FirstIdx(keys, ok) ==
  {i \in 1..Len(keys) :
     ok[i] /\ \A j \in 1..(i - 1) : ok[j] => keys[j] # keys[i]}

\* The subsequence of xs at the positions I.
AtIdx(xs, I) ==
  [k \in 1..Cardinality(I) |->
     xs[CHOOSE i \in I : Cardinality({j \in I : j < i}) = k - 1]]

\* The summaries the de-duplication loop of a category runs over.
ObsIn == MapObs(provider, Fetched("obs"))
MedIn == MapMed(Fetched("med"))
AllergyIn ==
  IF provider = "cerner" THEN Take(MapAllergy(Fetched("allergy")), ListCap)
  ELSE MapAllergy(Fetched("allergy"))
ConditionIn ==
  IF provider = "cerner" THEN Take(MapCondition(Fetched("cond")), ListCap)
  ELSE MapCondition(Fetched("cond"))

SnapshotReturned(t) == Done(t) /\ th[t].outcome.kind = "snapshot"

\* C12: each de-duplicated member of a returned snapshot is the subsequence
\* of the list its loop ran over made of the first occurrence of each key,
\* in order: the text for allergies and conditions, (name, dosage) for
\* medications, and for observations the text among the entries whose
\* issued is not None, so that an entry without a date never hides a later
\* dated one of the same text.
C12_FirstOccurrences ==
  \A t \in Threads :
    SnapshotReturned(t) =>
      /\ th[t].observations =
           AtIdx(ObsIn, FirstIdx([i \in 1..Len(ObsIn) |-> ObsIn[i].text],
                                 [i \in 1..Len(ObsIn) |-> ObsIn[i].issued # NoneStr]))
      /\ th[t].allergies =
           AtIdx(AllergyIn, FirstIdx([i \in 1..Len(AllergyIn) |-> AllergyIn[i].text],
                                     [i \in 1..Len(AllergyIn) |-> TRUE]))
      /\ th[t].conditions =
           AtIdx(ConditionIn, FirstIdx([i \in 1..Len(ConditionIn) |-> ConditionIn[i].text],
                                       [i \in 1..Len(ConditionIn) |-> TRUE]))
      /\ th[t].medications =
           AtIdx(MedIn, FirstIdx([i \in 1..Len(MedIn) |->
                                    <<MedIn[i].name, MedIn[i].dosage>>],
                                 [i \in 1..Len(MedIn) |-> TRUE]))

\* A snapshot over three observations of one text: the first without a
\* date, the second kept, the third dropped as its duplicate.
C12_Witness ==
  \E t \in Threads :
    /\ SnapshotReturned(t) /\ Len(ObsIn) = 3
    /\ ObsIn[1].issued = NoneStr /\ ObsIn[2].issued # NoneStr
    /\ ObsIn[1].text = ObsIn[2].text /\ ObsIn[2].text = ObsIn[3].text
    /\ th[t].observations = <<ObsIn[2]>>

\* C13: no entry of the observations of a returned snapshot has issued None.
C13_NoDatelessObservation ==
  \A t \in Threads :
    SnapshotReturned(t) =>
      \A i \in 1..Len(th[t].observations) : th[t].observations[i].issued # NoneStr

C13_Witness ==
  \E t \in Threads :
    /\ SnapshotReturned(t)
    /\ \E i \in 1..Len(ObsIn) : ObsIn[i].issued = NoneStr
    /\ \E i \in 1..Len(ObsIn) : ObsIn[i].issued # NoneStr
    /\ th[t].observations # <<>>

\* "Glucose 95 mg/dL 03/01/2024"
sRendered ==
  sGlucose \o <<" ", "9", "5", " ">> \o sMgDl
           \o <<" ", "0", "3", "/", "0", "1", "/", "2", "0", "2", "4">>

\* An observation with a code text free of colons, a value, a unit, a
\* readable issued and no based-on label.
PlainObs(o) ==
  /\ ~Truthy(o.basedOn)
  /\ Truthy(o.code_text) /\ \A i \in 1..Len(o.code_text) : o.code_text[i] # ":"
  /\ o.value # NoValue /\ Truthy(o.unit)
  /\ Truthy(o.issued) /\ IsoParse(o.issued).ok

\* C14 (as claimed, both providers): such an observation is rendered as
\* "c v u MM/DD/YYYY" with nothing before it; the observation of the spec's
\* scenario as "Glucose 95 mg/dL 03/01/2024".
C14_PlainRendering ==
  \A t \in Threads :
    SnapshotReturned(t) =>
      \A i \in 1..Len(Fetched("obs")) :
        LET o == Fetched("obs")[i]
        IN /\ PlainObs(o) =>
                \E j \in 1..Len(th[t].observations) :
                  th[t].observations[j].text =
                    o.code_text \o <<" ">> \o Digits(o.value) \o <<" ">> \o o.unit
                                \o <<" ">> \o Strftime(IsoParse(o.issued))
           /\ o = oDated =>
                \E j \in 1..Len(th[t].observations) :
                  th[t].observations[j].text = sRendered

\* The same for the provider whose label has no based-on part.
C14_CernerRendering == provider = "cerner" => C14_PlainRendering

\* C15: the medications of a returned snapshot hold each (name, dosage)
\* pair of the summarized records exactly once and nothing else: records
\* that differ in dosage alone are all kept, and a record without dosage
\* merges only with another one without dosage.
C15_MedicationKey ==
  \A t \in Threads :
    SnapshotReturned(t) =>
      LET meds == th[t].medications
      IN /\ \A i \in 1..Len(MedIn) :
              Cardinality({j \in 1..Len(meds) :
                             /\ meds[j].name = MedIn[i].name
                             /\ meds[j].dosage = MedIn[i].dosage}) = 1
         /\ \A j \in 1..Len(meds) : \E i \in 1..Len(MedIn) : meds[j] = MedIn[i]

\* One name under two dosages, one of them twice.
C15_Witness ==
  \E t \in Threads :
    /\ SnapshotReturned(t) /\ Len(MedIn) = 3 /\ Len(th[t].medications) = 2
    /\ th[t].medications[1].name = th[t].medications[2].name
    /\ th[t].medications[1].dosage # th[t].medications[2].dosage

\* C16: the step that produced each member of a returned snapshot (the date
\* filter and de-duplication of observations, the cut and de-duplication of
\* allergies and conditions, the de-duplication of medications), run on
\* that member, returns it unchanged.
C16_DedupIdempotent ==
  \A t \in Threads :
    SnapshotReturned(t) =>
      /\ DedupObs(th[t].observations) = th[t].observations
      /\ CappedDedup(provider, th[t].allergies) = th[t].allergies
      /\ CappedDedup(provider, th[t].conditions) = th[t].conditions
      /\ DedupMeds(th[t].medications) = th[t].medications

\* A snapshot whose observations lost an entry and kept two.
C16_Witness ==
  \E t \in Threads :
    /\ SnapshotReturned(t)
    /\ Len(th[t].observations) = 2 /\ Len(ObsIn) = 3
    /\ DedupObs(th[t].observations) = th[t].observations

\* C17: a snapshot call calls get-token once, which makes at most one
\* POST; no search goes out while the token is being obtained, nor after
\* get-token failed; and every request of the call, through either client,
\* carries the one token that get-token returned to it.
C17_OneTokenPerSnapshot ==
  \A t \in Threads :
    (th[t].op = "snapshot" /\ th[t].pc # "idle") =>
      /\ th[t].gets = 1 /\ th[t].posts <= 1
      /\ th[t].pc \in {"post", "wait", "store"} => th[t].fetched = {}
      /\ th[t].tok = NoToken => th[t].fetched = {} /\ th[t].used = {}
      /\ (Done(t) /\ th[t].tok = NoToken) => th[t].outcome.kind = "error"
      /\ th[t].fetched # {} =>
           /\ th[t].used = {th[t].tok}
           /\ \/ th[t].hit /\ th[t].posts = 0
              \/ ~th[t].hit /\ th[t].posts = 1 /\ th[t].gotStatus = 200

\* A snapshot of epic, whose medication search goes through the second
\* client.
C17_Witness ==
  \E t \in Threads :
    /\ SnapshotReturned(t) /\ provider = "epic" /\ th[t].fetched = AllStages
    /\ th[t].used = {th[t].tok} /\ th[t].fhir_med = th[t].tok

\* A snapshot that got its token from the cache.
C17_WitnessCached ==
  \E t \in Threads :
    SnapshotReturned(t) /\ th[t].hit /\ th[t].used = {th[t].tok}

\* C18 (as claimed): a get-token call that ends in an error leaves the
\* cached token and the cached expiry as they were when it began, and the
\* two are always both unset or both set.
C18_FailedCallKeepsCache ==
  /\ \A t \in Threads :
       (Done(t) /\ th[t].op = "token" /\ th[t].outcome.kind = "error") =>
         /\ svc.access_token = th[t].before.access_token
         /\ svc.token_exp = th[t].before.token_exp
  /\ svc.access_token = NoToken <=> svc.token_exp = NoExp

\* The same for the calls that fail before the answer is parsed: on an
\* empty scope, on a status raise_for_status rejects, on a body that is
\* not JSON.
C18_EarlyFailureKeepsCache ==
  \A t \in Threads :
    (/\ Done(t) /\ th[t].op = "token" /\ th[t].outcome.kind = "error"
     /\ th[t].outcome.msg # "Token response missing access_token") =>
      /\ svc.access_token = th[t].before.access_token
      /\ svc.token_exp = th[t].before.token_exp

=============================================================================
